---- MODULE Spec2Model ----
(***************************************************************************)
(* The MCPS meeting scraper as a state machine: the batch runners          *)
(* fetchMCPSOptimized.ts and fetchMCPSComplete.ts, the segment downloader  *)
(* fetchSubs.ts they shell out to, and the caption-extraction loops of     *)
(* downloadFullMeetings.ts, optimizedDownload.ts, extractAllSubtitles.ts   *)
(* and fetchMCPSMeetingsV2.ts, over a shared file system (the scratch      *)
(* directory ./subs, the meeting directories and .progress.json).          *)
(***************************************************************************)
EXTENDS Integers, Sequences, FiniteSets, TLC

\* ------------------------------------------------------------------ bounds
MaxMeetings == 2
MaxLen == 2
MaxBatchRuns == 2

Meetings == 1..MaxMeetings

\* --------------------------------------------------------- program constants
\* optimizationLevels of fetchMCPSOptimized.ts
optimizationLevels ==
  [ fast     |-> [segmentSampleRate |-> 50, maxSegments |-> 200],
    balanced |-> [segmentSampleRate |-> 20, maxSegments |-> 500],
    thorough |-> [segmentSampleRate |-> 10, maxSegments |-> 1000],
    complete |-> [segmentSampleRate |-> 1,  maxSegments |-> 0] ]

LevelNames == {"fast", "balanced", "thorough", "complete"}

\* skip-if-exists thresholds (bytes) of the per-meeting functions
OptSkipMin == 5000
CplSkipMin == 50000
FullSkipMin == 1000
\* accept-as-success thresholds (bytes)
OptAcceptMin == 1000
CplAcceptMin == 10000
FullAcceptMin == 1000
StreamAcceptMin == 5000
ExtractAllAcceptMin == 100

\* ------------------------------------------------------------------ state
VARIABLES
  script,        \* [Procs -> script name]: which script each process runs
  level,         \* [Procs -> level name]: argv[3] of fetchMCPSOptimized
  manifestLen,   \* [Meetings -> Nat]: pl.manifest.segments.length of each meeting
  hasVariant,    \* [Meetings -> BOOLEAN]: master.manifest.playlists?.[0] is defined
  pc,            \* [Procs -> control point]
  batchRun,      \* [Procs -> how many times the batch command has been started]
  cur,           \* [Procs -> i + 1 of the main loop]
  completed,     \* [Procs -> in-memory Set `completed']
  progressFile,  \* the completed array of .progress.json ({} when absent)
  subsDir,       \* does ./subs exist
  subsSeg,       \* ./subs/segment_NNNN.ts : index -> content
  subsMisc,      \* every other file of ./subs : name -> content
  mdirSeg,       \* [Meetings -> segment files moved into the meeting directory]
  mdirMisc,      \* [Meetings -> other files of the meeting directory]
  i,             \* [Procs -> loop counter of fetchSubs / of the extraction loop]
  selectedFiles, \* [Procs -> the file list handed to cat]
  extractionSuccess, \* [Procs -> the flag / early return of the extraction loop]
  result,        \* [Procs -> "none" | "true" | "false"]: the per-meeting return value
  successCount,  \* [Procs -> counter printed as Successful]
  skippedCount,  \* [Procs -> counter printed as Skipped]
  log,           \* history: [Procs -> strategy invocations of the current run]
  netReq,        \* history: [Procs -> segment indices requested over the network this run]
  assembled,     \* history: [Procs -> contents concatenated by cat this run]
  okArtifact,    \* history: [Meetings -> the file a run accepted as success, or NoFile]
  returnedTrue,  \* history: meetings whose per-meeting function has returned true
  listing,       \* two file names of one directory in the order sort() / the glob gives
  srt,           \* the cue lines `start --> end' of a caption file handed to the analyzer
  analysis,      \* what analyzeSubtitleFile returned for it ([done |-> FALSE] before)
  sampleRate,    \* the stride handed to the filter of sampleBasedExtraction
  tracks         \* the SUBTITLES tracks the master playlist of meeting cur declares

vars == << script, level, manifestLen, hasVariant, pc, batchRun, cur, completed, progressFile,
           subsDir, subsSeg, subsMisc, mdirSeg, mdirMisc, i, selectedFiles,
           extractionSuccess, result, successCount, skippedCount, log, netReq,
           assembled,
           okArtifact, returnedTrue, listing, srt, analysis, sampleRate, tracks >>

Procs == DOMAIN pc

EmptyDir == << >>

\* ------------------------------------------------------------- file helpers
Min(a, b) == IF a < b THEN a ELSE b

Exists(dir, name) == name \in DOMAIN dir

\* fs.writeFile / a tool writing `name': create or overwrite
WriteFile(dir, name, content) ==
  [n \in DOMAIN dir \cup {name} |-> IF n = name THEN content ELSE dir[n]]

\* fs.unlink(...).catch(() => {})
Unlink(dir, names) == [n \in DOMAIN dir \ names |-> dir[n]]

\* the run a file was written by: meeting, process, batch run
RunTag(p) == [m |-> cur[p], p |-> p, b |-> batchRun[p]]


\* ------------------------------------------------------------- file names
\* a directory entry ending in .ts: a segment file or another video file
Seg(k) == [seg |-> TRUE, idx |-> k, name |-> "segment"]
Misc(n) == [seg |-> FALSE, idx |-> 0, name |-> n]

TsNames == {"processed_video.ts", "complete_video.ts", "video.ts"}

RECURSIVE Digits(_)
\* i.toString() as character codes
Digits(k) == IF k < 10 THEN << 48 + k >> ELSE Digits(k \div 10) \o << 48 + (k % 10) >>

\* .padStart(4, '0')
PadStart4(d) == IF Len(d) >= 4 THEN d ELSE [k \in 1..(4 - Len(d)) |-> 48] \o d

\* `segment_${i.toString().padStart(4, '0')}.ts' from its first character on
\* ('s' = 115, '.' = 46); the other .ts names differ from it in the first one
NameKey(f) ==
  IF f.seg THEN << 115 >> \o PadStart4(Digits(f.idx)) \o << 46 >>
  ELSE CASE f.name = "processed_video.ts" -> << 112 >>
         [] f.name = "complete_video.ts"  -> << 99 >>
         [] OTHER                         -> << 118 >>

\* string comparison of Array.prototype.sort() and of the shell's glob order
NameLess(a, b) ==
  \/ \E k \in 1..Min(Len(a), Len(b)) :
        /\ a[k] < b[k]
        /\ \A j \in 1..(k - 1) : a[j] = b[j]
  \/ /\ Len(a) < Len(b)
     /\ \A j \in 1..Len(a) : a[j] = b[j]

\* files.sort(): the entries of S in ascending name order (`@@ << >>' leaves a
\* function as it is and has TLC compute its values once)
SortNames(S) ==
  LET key == [f \in S |-> NameKey(f)] @@ << >>
      rank == [f \in S |-> Cardinality({g \in S : NameLess(key[g], key[f])})] @@ << >>
  IN  [k \in 1..Cardinality(S) |-> CHOOSE f \in S : rank[f] = k - 1] @@ << >>

\* (await fs.readdir(subsDir)).filter(f => f.endsWith('.ts'))
TsEntries(seg, misc) ==
  {Seg(k) : k \in DOMAIN seg} \cup {Misc(n) : n \in DOMAIN misc \cap TsNames}

\* a filter that counts the files from one
StrideFilterFromOne(files, n) ==
  LET keep == {k \in 1..Len(files) : k % n = 0}
  IN  [j \in 1..Cardinality(keep) |->
         files[CHOOSE k \in keep : Cardinality({q \in keep : q < k}) = j - 1]]

\* files.filter((_, index) => index % n === 0)
StrideFilter(files, n) ==
  LET keep == {k \in 1..Len(files) : (k - 1) % n = 0}
  IN  [j \in 1..Cardinality(keep) |->
         files[CHOOSE k \in keep : Cardinality({q \in keep : q < k}) = j - 1]]

\* selectedFiles of extractOptimizedSubtitles
SampleFiles(files, rate) == IF rate > 1 THEN StrideFilter(files, rate) ELSE files

\* a download loop that ignores the limit
SegmentCountNoCap(maxSegments, len) == len

\* segmentCount of downloadAllSegments; an absent argv[3] is maxSegments = 0
SegmentCount(maxSegments, len) ==
  IF maxSegments # 0 THEN Min(maxSegments, len) ELSE len

\* the segment limit each script passes to fetchSubs.ts
MaxSegmentsArg(p) ==
  CASE script[p] = "optimized" -> optimizationLevels[level[p]].maxSegments
    [] script[p] = "v2"        -> 200
    [] OTHER                   -> 0

segmentCount(p) == SegmentCount(MaxSegmentsArg(p), manifestLen[cur[p]])


\* ------------------------------------------------------------ file contents
NoRun == [m |-> 0, p |-> 0, b |-> 0]
NoFile == [size |-> -1, by |-> NoRun, strat |-> 0]

\* a caption or metadata file: its byte size, the run and the strategy that wrote it
File(size, p, strat) == [size |-> size, by |-> RunTag(p), strat |-> strat]

\* metadata.json: the scraped record of meeting m, the same on every run
MetaFile(m) == [size |-> 1, by |-> [m |-> m, p |-> 0, b |-> 0], strat |-> 0]

\* a segment file: the run that fetched it, and whether the body arrived whole
SegFile(p, whole) == [by |-> RunTag(p), whole |-> whole]

\* stat(path).size, -1 when the stat fails
SizeOf(dir, name) == IF Exists(dir, name) THEN dir[name].size ELSE -1

\* what no step of the scripts changes
cfgVars == << script, level, manifestLen, hasVariant, listing, srt, analysis,
             sampleRate, tracks >>
subsVars == << subsDir, subsSeg, subsMisc >>
mdirVars == << mdirSeg, mdirMisc >>
mainVars == << batchRun, cur, completed, progressFile, successCount, skippedCount >>
runVars == << i, selectedFiles, extractionSuccess, log, netReq, assembled >>

\* `return v' of the per-meeting function
Return(p, v) ==
  /\ result' = [result EXCEPT ![p] = v]
  /\ pc' = [pc EXCEPT ![p] = "returned"]
  /\ returnedTrue' = IF v = "true" THEN returnedTrue \cup {cur[p]} ELSE returnedTrue

Goto(p, at) == pc' = [pc EXCEPT ![p] = at]

\* the per-meeting function's locals are gone once its caller goes on
DropLocals(p) ==
  /\ i' = [i EXCEPT ![p] = 0]
  /\ selectedFiles' = [selectedFiles EXCEPT ![p] = << >>]
  /\ extractionSuccess' = [extractionSuccess EXCEPT ![p] = FALSE]
  /\ log' = [log EXCEPT ![p] = << >>]
  /\ netReq' = [netReq EXCEPT ![p] = {}]
  /\ assembled' = [assembled EXCEPT ![p] = << >>]
  /\ result' = [result EXCEPT ![p] = "none"]

\* -------------------------------------------------- fetchSubs.ts (child process)
\* main of fetchSubs.ts up to the download loop: the master and the variant
\* playlist are fetched, no subtitle track is declared, ./subs is created
fetchSubsStart(p) ==
  /\ pc[p] = "fetch"
  /\ Len(tracks) = 0
  /\ hasVariant[cur[p]]
  /\ subsDir' = TRUE
  /\ i' = [i EXCEPT ![p] = 0]
  /\ Goto(p, "segments")
  /\ UNCHANGED << cfgVars, subsSeg, subsMisc, mdirVars, mainVars, selectedFiles,
                  extractionSuccess, log, netReq, assembled, result, okArtifact,
                  returnedTrue >>

\* ------------------------------------------------ fetchSubs.ts, concatWebVtt
\* String.prototype.toLowerCase on the names a playlist uses
ToLowerCase(str) ==
  CASE str = "EN"      -> "en"
    [] str = "English" -> "english"
    [] OTHER           -> str

\* line 44: (t.language || t.name || 'unknown').toLowerCase(); the empty
\* string stands for an attribute the playlist does not give
LangOf(t) ==
  ToLowerCase(IF t.language # "" THEN t.language
              ELSE IF t.name # "" THEN t.name ELSE "unknown")

\* line 45: dest = join(outDir, `${lang}.vtt`)
Dest(t) == LangOf(t) \o ".vtt"

\* lines 31-35: there are tracks, so ./subs is made and the loop over them starts
concatWebVttStart(p) ==
  /\ pc[p] = "fetch"
  /\ Len(tracks) > 0
  /\ subsDir' = TRUE
  /\ i' = [i EXCEPT ![p] = 0]
  /\ Goto(p, "tracks")
  /\ UNCHANGED << cfgVars, subsSeg, subsMisc, mdirVars, mainVars, selectedFiles,
                  extractionSuccess, log, netReq, assembled, result, okArtifact,
                  returnedTrue >>

\* lines 37-52, one iteration: a track without a uri is passed over, the
\* segments of any other are concatenated and written to its dest
concatWebVttTrack(p) ==
  /\ pc[p] = "tracks"
  /\ i[p] < Len(tracks)
  /\ LET t == tracks[i[p] + 1]
     IN  subsMisc' = IF t.uri THEN WriteFile(subsMisc, Dest(t), File(1, p, i[p] + 1))
                     ELSE subsMisc
  /\ i' = [i EXCEPT ![p] = @ + 1]
  /\ UNCHANGED << cfgVars, subsDir, subsSeg, mdirVars, mainVars, selectedFiles,
                  extractionSuccess, log, netReq, assembled, result, pc, okArtifact,
                  returnedTrue >>

\* text(plUrl) or text(segment) throws: fetchSubs exits 1, execSync throws and
\* the caller's catch returns false
concatWebVttError(p) ==
  /\ pc[p] = "tracks"
  /\ i[p] < Len(tracks)
  /\ tracks[i[p] + 1].uri
  /\ Return(p, "false")
  /\ UNCHANGED << cfgVars, subsVars, mdirVars, mainVars, runVars, okArtifact >>

\* line 54 and main, line 108: concatWebVtt returns true, downloadAllSegments
\* is not called, fetchSubs exits 0 and the caller goes on
concatWebVttDone(p) ==
  /\ pc[p] = "tracks"
  /\ i[p] >= Len(tracks)
  /\ Goto(p, CASE script[p] = "optimized" -> "select"
               [] script[p] = "complete"  -> "move")
  /\ UNCHANGED << cfgVars, subsVars, mdirVars, mainVars, i, selectedFiles,
                  extractionSuccess, log, netReq, assembled, result, okArtifact,
                  returnedTrue >>

\* lines 27-33 and 57-62: the master playlist has no subtitle track and no
\* variant; concatWebVtt returns false, downloadAllSegments returns at
\* `if (!variant) return', nothing is created and fetchSubs exits 0
fetchSubsNoVariant(p) ==
  /\ pc[p] = "fetch"
  /\ Len(tracks) = 0
  /\ ~hasVariant[cur[p]]
  /\ Goto(p, CASE script[p] = "optimized" -> "select"
               [] script[p] = "complete"  -> "move")
  /\ UNCHANGED << cfgVars, subsVars, mdirVars, mainVars, i, selectedFiles,
                  extractionSuccess, log, netReq, assembled, result, okArtifact,
                  returnedTrue >>

\* text(masterUrl) / text(plUrl) throws: fetchSubs exits 1 before the mkdir,
\* execSync throws and the caller's catch returns false
fetchSubsManifestError(p) ==
  /\ pc[p] = "fetch"
  /\ Return(p, "false")
  /\ UNCHANGED << cfgVars, subsVars, mdirVars, mainVars, runVars, okArtifact >>

\* one iteration of the download loop: segment i is written to ./subs
FetchSegment(p) ==
  /\ pc[p] = "segments"
  /\ i[p] < segmentCount(p)
  /\ netReq' = [netReq EXCEPT ![p] = @ \cup {i[p]}]
  /\ subsDir
  /\ subsSeg' = WriteFile(subsSeg, i[p], SegFile(p, TRUE))
  /\ i' = [i EXCEPT ![p] = @ + 1]
  /\ UNCHANGED << cfgVars, subsDir, subsMisc, mdirVars, mainVars, selectedFiles,
                  extractionSuccess, log, assembled, result, pc, okArtifact,
                  returnedTrue >>

\* the server answers 2xx with a body that ends early without a stream error
\* (no bytes, or fewer than the segment has): res.ok and res.body pass, the
\* short file is written and the loop goes on
FetchSegmentShort(p) ==
  /\ pc[p] = "segments"
  /\ i[p] < segmentCount(p)
  /\ netReq' = [netReq EXCEPT ![p] = @ \cup {i[p]}]
  /\ subsDir
  /\ subsSeg' = WriteFile(subsSeg, i[p], SegFile(p, FALSE))
  /\ i' = [i EXCEPT ![p] = @ + 1]
  /\ UNCHANGED << cfgVars, subsDir, subsMisc, mdirVars, mainVars, selectedFiles,
                  extractionSuccess, log, assembled, result, pc, okArtifact,
                  returnedTrue >>

\* a download loop that skips a segment it cannot fetch and goes on
FetchSegmentSkip(p) ==
  /\ pc[p] = "segments"
  /\ i[p] < segmentCount(p)
  /\ netReq' = [netReq EXCEPT ![p] = @ \cup {i[p]}]
  /\ i' = [i EXCEPT ![p] = @ + 1]
  /\ UNCHANGED << cfgVars, subsVars, mdirVars, mainVars, selectedFiles,
                  extractionSuccess, log, assembled, result, pc, okArtifact,
                  returnedTrue >>

\* `if (!res.ok || !res.body) throw' or a stream error part-way through the
\* body: fetchSubs exits 1, execSync throws, the caller's catch returns false
FetchSegmentError(p) ==
  /\ pc[p] = "segments"
  /\ i[p] < segmentCount(p)
  /\ netReq' = [netReq EXCEPT ![p] = @ \cup {i[p]}]
  /\ \/ UNCHANGED subsSeg
     \/ /\ subsDir
        /\ subsSeg' = WriteFile(subsSeg, i[p], SegFile(p, FALSE))
  /\ Return(p, "false")
  /\ UNCHANGED << cfgVars, subsDir, subsMisc, mdirVars, mainVars, i, selectedFiles,
                  extractionSuccess, log, assembled, okArtifact >>

\* the loop is over: fetchSubs exits 0 and the caller goes on
fetchSubsDone(p) ==
  /\ pc[p] = "segments"
  /\ i[p] >= segmentCount(p)
  /\ Goto(p, CASE script[p] = "optimized" -> "select"
               [] script[p] = "complete"  -> "move"
               [] OTHER                   -> "concat")
  /\ UNCHANGED << cfgVars, subsVars, mdirVars, mainVars, runVars, result,
                  okArtifact, returnedTrue >>


\* ------------------------------------------- fetchMCPSOptimized.ts, per meeting
\* the sizes a caption file can be written with: around each threshold
OptSizes == {OptAcceptMin, OptSkipMin, OptSkipMin + 1}

\* `if (stats.size > 5000)' of the already-exists check
OptAlreadyExists(size) == size > OptSkipMin

\* `if (stats.size > 1000)' of the verification
OptAccepts(size) == size > OptAcceptMin

\* extractOptimizedSubtitles, lines 104-113: skip when captions.srt is there
OptCheckExisting(p) ==
  /\ pc[p] = "check"
  /\ script[p] = "optimized"
  /\ IF OptAlreadyExists(SizeOf(mdirMisc[cur[p]], "captions.srt"))
       THEN Return(p, "true")
       ELSE Goto(p, "fetch") /\ UNCHANGED << result, returnedTrue >>
  /\ UNCHANGED << cfgVars, subsVars, mdirVars, mainVars, runVars, okArtifact >>

\* lines 127-139: stat ./subs, list and sort its .ts files, sample them
OptSelect(p) ==
  /\ pc[p] = "select"
  /\ IF ~subsDir
       THEN Return(p, "false") /\ UNCHANGED selectedFiles
       ELSE LET files == SortNames(TsEntries(subsSeg, subsMisc))
                sel == SampleFiles(files, optimizationLevels[level[p]].segmentSampleRate)
            IN  /\ selectedFiles' = [selectedFiles EXCEPT ![p] = sel]
                /\ IF Len(sel) > 0
                     THEN Goto(p, "concat") /\ UNCHANGED << result, returnedTrue >>
                     ELSE Return(p, "false")
  /\ UNCHANGED << cfgVars, subsVars, mdirVars, mainVars, i, extractionSuccess, log,
                  netReq, assembled, okArtifact >>

\* what cat reads from the listed files of ./subs; the output file, truncated
\* by the redirection before cat starts, gives nothing when it is an input too
CatSubs(files) ==
  LET IsSeg(f) == f.seg /\ f.idx \in DOMAIN subsSeg
      segs == SelectSeq(files, IsSeg)
  IN  [j \in 1..Len(segs) |-> subsSeg[segs[j].idx]]

\* line 143: cat <selected> > subs/processed_video.ts
OptConcat(p) ==
  /\ pc[p] = "concat"
  /\ script[p] = "optimized"
  /\ subsDir
  /\ \A k \in 1..Len(selectedFiles[p]) :
        selectedFiles[p][k].seg => selectedFiles[p][k].idx \in DOMAIN subsSeg
  /\ LET bytes == CatSubs(selectedFiles[p])
     IN  /\ assembled' = [assembled EXCEPT ![p] = bytes]
         /\ subsMisc' = WriteFile(subsMisc, "processed_video.ts",
                                  File(Len(bytes), p, 0))
  /\ Goto(p, "ffmpeg")
  /\ UNCHANGED << cfgVars, subsDir, subsSeg, mdirVars, mainVars, i, selectedFiles,
                  extractionSuccess, log, netReq, result, okArtifact, returnedTrue >>

\* cat exits non-zero (an input is missing, the directory is gone, the disk is
\* full): execSync throws and the catch returns false
OptConcatError(p) ==
  /\ pc[p] = "concat"
  /\ script[p] = "optimized"
  /\ subsMisc' = IF subsDir THEN WriteFile(subsMisc, "processed_video.ts", File(0, p, 0))
                 ELSE subsMisc
  /\ Return(p, "false")
  /\ UNCHANGED << cfgVars, subsDir, subsSeg, mdirVars, mainVars, runVars, okArtifact >>

\* line 147: ffmpeg exits 0, having written captions.srt or not
OptFfmpeg(p) ==
  /\ pc[p] = "ffmpeg"
  /\ Exists(subsMisc, "processed_video.ts")
  /\ \/ UNCHANGED mdirMisc
     \/ \E size \in OptSizes :
          mdirMisc' = [mdirMisc EXCEPT ![cur[p]] =
                         WriteFile(@, "captions.srt", File(size, p, 1))]
  /\ Goto(p, "cleanup")
  /\ UNCHANGED << cfgVars, subsVars, mdirSeg, mainVars, runVars, result, okArtifact,
                  returnedTrue >>

\* ffmpeg exits non-zero or runs into the 600000 ms timeout: execSync throws,
\* the catch returns false
OptFfmpegError(p) ==
  /\ pc[p] = "ffmpeg"
  /\ \/ UNCHANGED mdirMisc
     \/ \E size \in OptSizes :
          mdirMisc' = [mdirMisc EXCEPT ![cur[p]] =
                         WriteFile(@, "captions.srt", File(size, p, 1))]
  /\ Return(p, "false")
  /\ UNCHANGED << cfgVars, subsVars, mdirSeg, mainVars, runVars, okArtifact >>

\* line 153: fs.rm(subsDir, { recursive: true, force: true })
OptCleanup(p) ==
  /\ pc[p] = "cleanup"
  /\ subsDir' = FALSE
  /\ subsSeg' = EmptyDir
  /\ subsMisc' = EmptyDir
  /\ Goto(p, "verify")
  /\ UNCHANGED << cfgVars, mdirVars, mainVars, runVars, result, okArtifact,
                  returnedTrue >>

\* lines 155-172: the output must exist and be larger than 1000 bytes
OptVerify(p) ==
  /\ pc[p] = "verify"
  /\ LET size == SizeOf(mdirMisc[cur[p]], "captions.srt")
     IN  IF OptAccepts(size)
           THEN /\ Return(p, "true")
                /\ okArtifact' = [okArtifact EXCEPT ![cur[p]] = mdirMisc[cur[p]]["captions.srt"]]
           ELSE /\ Return(p, "false")
                /\ UNCHANGED okArtifact
  /\ UNCHANGED << cfgVars, subsVars, mdirVars, mainVars, runVars >>


\* ------------------------------------------------- the extraction loops
\* captionMethods / commands / streamMethods / methods / captionCommands
NumStrategies(s) == IF s = "extractAll" THEN 4 ELSE 3

\* the file strategy k (from 1) of script s writes
OutName(s, k) ==
  CASE s = "complete"   -> "captions_complete.srt"
    [] s = "stream"     -> "captions_stream.srt"
    [] s = "v2" /\ k = 2 -> "captions.vtt"
    [] OTHER            -> "captions.srt"

\* the byte threshold of the loop's size check (v2 has none)
AcceptMin(s) ==
  CASE s = "complete"   -> CplAcceptMin
    [] s = "full"       -> FullAcceptMin
    [] s = "stream"     -> StreamAcceptMin
    [] s = "extractAll" -> ExtractAllAcceptMin
    [] OTHER            -> 0

\* the sizes a strategy can write its output with: around the thresholds
LoopSizes(s) ==
  IF s = "complete" THEN {CplAcceptMin, CplSkipMin, CplSkipMin + 1}
  ELSE {0, AcceptMin(s), AcceptMin(s) + 1}

\* the check after a strategy has exited 0: is the output taken as a success
Accepts(s, dir, k) ==
  IF s = "v2"
    THEN \* files.some(f => f.endsWith('.srt') || f.endsWith('.vtt'))
         Exists(dir, "captions.srt") \/ Exists(dir, "captions.vtt")
    ELSE \* stat succeeded && stats.size > threshold
         SizeOf(dir, OutName(s, k)) > AcceptMin(s)

\* a loop that does not look at the success flag
LoopContinuesNoStop(s, k, success) == k < NumStrategies(s)

\* the loop condition: `i < captionMethods.length && !extractionSuccess', or a
\* for loop left by `return true' / `break'
LoopContinues(s, k, success) == k < NumStrategies(s) /\ ~success

\* the directory the strategies write into
OutDir(p) == IF script[p] = "v2" THEN subsMisc ELSE mdirMisc[cur[p]]

SetOutDir(p, dir) ==
  IF script[p] = "v2"
    THEN subsMisc' = dir /\ UNCHANGED mdirMisc
    ELSE mdirMisc' = [mdirMisc EXCEPT ![cur[p]] = dir] /\ UNCHANGED subsMisc

\* one iteration of the loop body: strategy i + 1 runs and exits with `exit',
\* having written `wrote' bytes to its output (-1: it wrote no file); after
\* exit 0 the output is checked
Iteration(p, exit, wrote) ==
  LET s == script[p]
      k == i[p] + 1
      name == OutName(s, k)
      dir == IF wrote >= 0 THEN WriteFile(OutDir(p), name, File(wrote, p, k))
             ELSE OutDir(p)
      ok == exit = "ok" /\ Accepts(s, dir, k)
  IN  /\ SetOutDir(p, dir)
      /\ extractionSuccess' = [extractionSuccess EXCEPT ![p] = ok]
      /\ okArtifact' = IF ok /\ s # "v2"
                         THEN [okArtifact EXCEPT ![cur[p]] = dir[name]]
                         ELSE okArtifact
      /\ i' = [i EXCEPT ![p] = @ + 1]

\* history of the loop: which strategy ran, how it exited, and the size of its
\* output file afterwards (-1: no such file)
Logged(p, exit) ==
  LET k == i[p] + 1
      dir == IF script[p] = "v2" THEN subsMisc' ELSE mdirMisc'[cur[p]]
  IN  log' = [log EXCEPT ![p] = Append(@, [strat |-> k, exit |-> exit,
                 after |-> SizeOf(dir, OutName(script[p], k))])]

\* execSync(strategy) returns: the tool exited 0 within its timeout
InvokeStrategy(p) ==
  /\ pc[p] = "extract"
  /\ LoopContinues(script[p], i[p], extractionSuccess[p])
  /\ \E wrote \in {-1} \cup LoopSizes(script[p]) : Iteration(p, "ok", wrote)
  /\ UNCHANGED << cfgVars, subsDir, subsSeg, mdirSeg, mainVars, selectedFiles,
                  netReq, assembled, result, pc, returnedTrue >>

\* a loop without the inner try/catch: a strategy that throws ends the function
InvokeStrategyFatal(p) ==
  /\ pc[p] = "extract"
  /\ LoopContinues(script[p], i[p], extractionSuccess[p])
  /\ \E wrote \in {-1} \cup LoopSizes(script[p]) : Iteration(p, "fail", wrote)
  /\ Return(p, "false")
  /\ UNCHANGED << cfgVars, subsDir, subsSeg, mdirSeg, mainVars, selectedFiles,
                  netReq, assembled >>

\* execSync(strategy) throws: a non-zero exit or the timeout; the catch goes on
InvokeStrategyError(p) ==
  /\ pc[p] = "extract"
  /\ LoopContinues(script[p], i[p], extractionSuccess[p])
  /\ \E wrote \in {-1} \cup LoopSizes(script[p]) : Iteration(p, "fail", wrote)
  /\ UNCHANGED << cfgVars, subsDir, subsSeg, mdirSeg, mainVars, selectedFiles,
                  netReq, assembled, result, pc, returnedTrue >>

\* a loop that can be left before its list is exhausted
LoopOverAnytime(p) == pc[p] = "extract"

LoopOver(p) ==
  pc[p] = "extract" /\ ~LoopContinues(script[p], i[p], extractionSuccess[p])

\* -------------------------------------------- fetchMCPSComplete.ts, per meeting
\* `if (stats.size > 50000)' of the already-exists check
CplAlreadyExists(size) == size > CplSkipMin

\* downloadSubtitles, lines 195-204
CplCheckExisting(p) ==
  /\ pc[p] = "check"
  /\ script[p] = "complete"
  /\ IF CplAlreadyExists(SizeOf(mdirMisc[cur[p]], "captions_complete.srt"))
       THEN Return(p, "true")
       ELSE Goto(p, "fetch") /\ UNCHANGED << result, returnedTrue >>
  /\ UNCHANGED << cfgVars, subsVars, mdirVars, mainVars, runVars, okArtifact >>

\* lines 215-225 and 298: every file of ./subs is renamed into the meeting
\* directory; without a .ts file among them the function returns true
CplMove(p) ==
  /\ pc[p] = "move"
  /\ IF ~subsDir
       THEN /\ Return(p, "true")
            /\ UNCHANGED << subsSeg, subsMisc, mdirSeg, mdirMisc, selectedFiles >>
       ELSE LET m == cur[p]
                subFiles == SortNames(TsEntries(subsSeg, subsMisc))
            IN  /\ selectedFiles' = [selectedFiles EXCEPT ![p] = subFiles]
                /\ mdirSeg' = [mdirSeg EXCEPT ![m] =
                     [k \in DOMAIN @ \cup DOMAIN subsSeg |->
                        IF k \in DOMAIN subsSeg THEN subsSeg[k] ELSE @[k]]]
                /\ mdirMisc' = [mdirMisc EXCEPT ![m] =
                     [n \in DOMAIN @ \cup DOMAIN subsMisc |->
                        IF n \in DOMAIN subsMisc THEN subsMisc[n] ELSE @[n]]]
                /\ subsSeg' = EmptyDir
                /\ subsMisc' = EmptyDir
                /\ IF Len(subFiles) > 0
                     THEN Goto(p, "concat") /\ UNCHANGED << result, returnedTrue >>
                     ELSE Return(p, "true")
  /\ UNCHANGED << cfgVars, subsDir, mainVars, i, extractionSuccess, log, netReq,
                  assembled, okArtifact >>

\* what `cat dir/segment_*.ts' reads: every segment file, in glob order
CatGlob(seg) ==
  LET files == SortNames({Seg(k) : k \in DOMAIN seg})
  IN  [j \in 1..Len(files) |-> seg[files[j].idx]]

\* line 231: cat outputDir/segment_*.ts > outputDir/complete_video.ts
CplConcat(p) ==
  /\ pc[p] = "concat"
  /\ script[p] = "complete"
  /\ LET bytes == CatGlob(mdirSeg[cur[p]])
     IN  /\ assembled' = [assembled EXCEPT ![p] = bytes]
         /\ mdirMisc' = [mdirMisc EXCEPT ![cur[p]] =
                           WriteFile(@, "complete_video.ts", File(Len(bytes), p, 0))]
  /\ i' = [i EXCEPT ![p] = 0]
  /\ Goto(p, "extract")
  /\ UNCHANGED << cfgVars, subsVars, mdirSeg, mainVars, selectedFiles,
                  extractionSuccess, log, netReq, result, okArtifact, returnedTrue >>

\* cat fails or runs into the 30 minute timeout: the inner catch returns false
CplConcatError(p) ==
  /\ pc[p] = "concat"
  /\ script[p] = "complete"
  /\ mdirMisc' = [mdirMisc EXCEPT ![cur[p]] =
                    WriteFile(@, "complete_video.ts", File(0, p, 0))]
  /\ Return(p, "false")
  /\ UNCHANGED << cfgVars, subsVars, mdirSeg, mainVars, runVars, okArtifact >>

\* lines 277-289: after the loop, clean up and return true, or return false
CplAfterLoop(p) ==
  /\ LoopOver(p)
  /\ script[p] = "complete"
  /\ IF extractionSuccess[p]
       THEN LET gone == {selectedFiles[p][k].idx : k \in 1..Len(selectedFiles[p])}
            IN  /\ mdirSeg' = [mdirSeg EXCEPT ![cur[p]] = Unlink(@, gone)]
                /\ mdirMisc' = [mdirMisc EXCEPT ![cur[p]] = Unlink(@, {"complete_video.ts"})]
                /\ Return(p, "true")
       ELSE /\ Return(p, "false")
            /\ UNCHANGED mdirVars
  /\ UNCHANGED << cfgVars, subsVars, mainVars, runVars, okArtifact >>

\* fetchMCPSComplete main, lines 407-415: the return value of downloadSubtitles
\* is dropped; the meeting is added to `completed' and saved
CplRecord(p) ==
  /\ pc[p] = "returned"
  /\ script[p] = "complete"
  /\ completed' = [completed EXCEPT ![p] = @ \cup {cur[p]}]
  /\ progressFile' = completed'[p]
  /\ successCount' = [successCount EXCEPT ![p] = @ + 1]
  /\ UNCHANGED skippedCount
  /\ cur' = [cur EXCEPT ![p] = @ + 1]
  /\ DropLocals(p)
  /\ Goto(p, "loop")
  /\ UNCHANGED << cfgVars, subsVars, mdirVars, batchRun, okArtifact, returnedTrue >>

\* ------------------------------------------------------- the batch runners
IsBatch(p) == script[p] \in {"optimized", "complete"}

\* a main that starts from an empty completed set
loadNoProgress(p) ==
  /\ pc[p] = "start"
  /\ IsBatch(p)
  /\ completed' = [completed EXCEPT ![p] = {}]
  /\ cur' = [cur EXCEPT ![p] = 1]
  /\ successCount' = [successCount EXCEPT ![p] = 0]
  /\ skippedCount' = [skippedCount EXCEPT ![p] = 0]
  /\ Goto(p, "loop")
  /\ UNCHANGED << cfgVars, subsVars, mdirVars, batchRun, progressFile, runVars,
                  result, okArtifact, returnedTrue >>

\* main up to the loop: loadProgress reads .progress.json
loadProgress(p) ==
  /\ pc[p] = "start"
  /\ IsBatch(p)
  /\ completed' = [completed EXCEPT ![p] = progressFile]
  /\ cur' = [cur EXCEPT ![p] = 1]
  /\ successCount' = [successCount EXCEPT ![p] = 0]
  /\ skippedCount' = [skippedCount EXCEPT ![p] = 0]
  /\ Goto(p, "loop")
  /\ UNCHANGED << cfgVars, subsVars, mdirVars, batchRun, progressFile, runVars,
                  result, okArtifact, returnedTrue >>

AtMeeting(p) == pc[p] = "loop" /\ IsBatch(p) /\ cur[p] <= MaxMeetings

NextMeeting(p) == cur' = [cur EXCEPT ![p] = @ + 1]

\* `if (completed.has(meetingId)) { skippedCount++; continue; }'
SkipCompleted(p) ==
  /\ AtMeeting(p)
  /\ cur[p] \in completed[p]
  /\ skippedCount' = [skippedCount EXCEPT ![p] = @ + 1]
  /\ NextMeeting(p)
  /\ UNCHANGED << cfgVars, subsVars, mdirVars, batchRun, completed, progressFile,
                  successCount, runVars, result, pc, okArtifact, returnedTrue >>

\* getMeetingInfo / getMeetingMetadata returns null: `continue'
MetadataFailed(p) ==
  /\ AtMeeting(p)
  /\ cur[p] \notin completed[p]
  /\ NextMeeting(p)
  /\ UNCHANGED << cfgVars, subsVars, mdirVars, batchRun, completed, progressFile,
                  successCount, skippedCount, runVars, result, pc, okArtifact,
                  returnedTrue >>

\* the metadata arrived: the meeting directory and metadata.json are written
\* and the per-meeting function is entered
BeginMeeting(p) ==
  /\ AtMeeting(p)
  /\ cur[p] \notin completed[p]
  /\ mdirMisc' = [mdirMisc EXCEPT ![cur[p]] = WriteFile(@, "metadata.json", MetaFile(cur[p]))]
  /\ DropLocals(p)
  /\ Goto(p, "check")
  /\ UNCHANGED << cfgVars, subsVars, mdirSeg, mainVars, okArtifact, returnedTrue >>

\* fetchMCPSOptimized main, lines 260-264: success is recorded and saved
OptRecordSuccess(p) ==
  /\ pc[p] = "returned"
  /\ script[p] = "optimized"
  /\ result[p] = "true"
  /\ completed' = [completed EXCEPT ![p] = @ \cup {cur[p]}]
  /\ progressFile' = completed'[p]
  /\ successCount' = [successCount EXCEPT ![p] = @ + 1]
  /\ UNCHANGED skippedCount
  /\ NextMeeting(p)
  /\ DropLocals(p)
  /\ Goto(p, "loop")
  /\ UNCHANGED << cfgVars, subsVars, mdirVars, batchRun, okArtifact, returnedTrue >>

\* a main that stops at the first failed meeting
AbortOnFailure(p) ==
  /\ pc[p] = "returned"
  /\ script[p] = "optimized"
  /\ result[p] = "false"
  /\ DropLocals(p)
  /\ Goto(p, "done")
  /\ UNCHANGED << cfgVars, subsVars, mdirVars, mainVars, okArtifact, returnedTrue >>

\* lines 265-267: a failure is only printed
OptRecordFailure(p) ==
  /\ pc[p] = "returned"
  /\ script[p] = "optimized"
  /\ result[p] = "false"
  /\ NextMeeting(p)
  /\ DropLocals(p)
  /\ Goto(p, "loop")
  /\ UNCHANGED << cfgVars, subsVars, mdirVars, batchRun, completed, progressFile,
                  successCount, skippedCount, okArtifact, returnedTrue >>

\* the loop is over: the final summary is printed and written
FinishBatch(p) ==
  /\ pc[p] = "loop"
  /\ IsBatch(p)
  /\ cur[p] > MaxMeetings
  /\ Goto(p, "done")
  /\ UNCHANGED << cfgVars, subsVars, mdirVars, mainVars, runVars, result, okArtifact,
                  returnedTrue >>

\* the process is interrupted (a signal, a crash, a lost connection that the
\* README's troubleshooting section describes): nothing more of it runs
Interrupt(p) ==
  /\ pc[p] \notin {"start", "done", "killed"}
  /\ batchRun[p] < MaxBatchRuns
  /\ DropLocals(p)
  /\ Goto(p, "killed")
  /\ UNCHANGED << cfgVars, subsVars, mdirVars, mainVars, okArtifact, returnedTrue >>

\* the same command is run again
Rerun(p) ==
  /\ pc[p] \in {"done", "killed"}
  /\ batchRun[p] < MaxBatchRuns
  /\ batchRun' = [batchRun EXCEPT ![p] = @ + 1]
  /\ Goto(p, "start")
  /\ UNCHANGED << cfgVars, subsVars, mdirVars, cur, completed, progressFile,
                  successCount, skippedCount, runVars, result, okArtifact,
                  returnedTrue >>

\* ------------------------------- the loops of the other per-meeting functions
\* downloadFullMeetings.ts, downloadSubtitlesFFmpeg: `return true' out of the
\* loop after extraction.log is written, `return false' after it
FullAfterLoop(p) ==
  /\ LoopOver(p)
  /\ script[p] = "full"
  /\ IF extractionSuccess[p]
       THEN /\ mdirMisc' = [mdirMisc EXCEPT ![cur[p]] =
                              WriteFile(@, "extraction.log", File(1, p, i[p]))]
            /\ Return(p, "true")
       ELSE /\ UNCHANGED mdirMisc
            /\ Return(p, "false")
  /\ UNCHANGED << cfgVars, subsVars, mdirSeg, mainVars, runVars, okArtifact >>

\* optimizedDownload.ts, streamProcessingApproach
StreamAfterLoop(p) ==
  /\ LoopOver(p)
  /\ script[p] = "stream"
  /\ Return(p, IF extractionSuccess[p] THEN "true" ELSE "false")
  /\ UNCHANGED << cfgVars, subsVars, mdirVars, mainVars, runVars, okArtifact >>

\* extractAllSubtitles.ts, extractSubtitlesFromMeeting: on success the segment
\* files and video.ts are unlinked
ExtractAllAfterLoop(p) ==
  /\ LoopOver(p)
  /\ script[p] = "extractAll"
  /\ IF extractionSuccess[p]
       THEN /\ mdirSeg' = [mdirSeg EXCEPT ![cur[p]] =
                             IF DOMAIN @ # {} THEN EmptyDir ELSE @]
            /\ mdirMisc' = [mdirMisc EXCEPT ![cur[p]] =
                              IF DOMAIN mdirSeg[cur[p]] # {}
                                THEN Unlink(@, {"video.ts"}) ELSE @]
            /\ Return(p, "true")
       ELSE /\ UNCHANGED mdirVars
            /\ Return(p, "false")
  /\ UNCHANGED << cfgVars, subsVars, mainVars, runVars, okArtifact >>

\* fetchMCPSMeetingsV2.ts, downloadAndExtractSubtitles, lines 230-259: whatever
\* the loop did, every file of ./subs is renamed into the output directory,
\* metadata.json is written and the function returns true
V2AfterLoop(p) ==
  /\ LoopOver(p)
  /\ script[p] = "v2"
  /\ IF subsDir
       THEN LET m == cur[p]
                moved == [n \in DOMAIN mdirMisc[m] \cup DOMAIN subsMisc |->
                            IF n \in DOMAIN subsMisc THEN subsMisc[n] ELSE mdirMisc[m][n]]
            IN  /\ mdirSeg' = [mdirSeg EXCEPT ![m] =
                     [k \in DOMAIN @ \cup DOMAIN subsSeg |->
                        IF k \in DOMAIN subsSeg THEN subsSeg[k] ELSE @[k]]]
                /\ mdirMisc' = [mdirMisc EXCEPT ![m] =
                                  WriteFile(moved, "metadata.json", MetaFile(m))]
                /\ subsSeg' = EmptyDir
                /\ subsMisc' = EmptyDir
                /\ Return(p, "true")
       ELSE /\ UNCHANGED << subsSeg, subsMisc, mdirVars >>
            /\ Return(p, "false")
  /\ UNCHANGED << cfgVars, subsDir, mainVars, runVars, okArtifact >>

\* ------------------------------------------------------------ specification
InitDisk ==
  /\ progressFile = {}
  /\ subsDir = FALSE
  /\ subsSeg = EmptyDir
  /\ subsMisc = EmptyDir
  /\ mdirSeg = [m \in Meetings |-> EmptyDir]
  /\ mdirMisc = [m \in Meetings |-> EmptyDir]
  /\ okArtifact = [m \in Meetings |-> NoFile]
  /\ returnedTrue = {}
  /\ listing = << >>
  /\ srt = << >>
  /\ analysis = [done |-> FALSE]
  /\ sampleRate = 10

\* every master playlist has a variant
InitFs ==
  /\ InitDisk
  /\ hasVariant = [m \in Meetings |-> TRUE]
  /\ tracks = << >>

InitProcsAt(P, at) ==
  /\ pc = [p \in P |-> at]
  /\ batchRun = [p \in P |-> 1]
  /\ cur = [p \in P |-> 1]
  /\ completed = [p \in P |-> {}]
  /\ i = [p \in P |-> 0]
  /\ selectedFiles = [p \in P |-> << >>]
  /\ extractionSuccess = [p \in P |-> FALSE]
  /\ result = [p \in P |-> "none"]
  /\ successCount = [p \in P |-> 0]
  /\ skippedCount = [p \in P |-> 0]
  /\ log = [p \in P |-> << >>]
  /\ netReq = [p \in P |-> {}]
  /\ assembled = [p \in P |-> << >>]

InitProcs(P) == InitProcsAt(P, "start")

Init ==
  /\ script \in [{1} -> {"optimized", "complete"}]
  /\ level \in [{1} -> LevelNames]
  /\ script[1] = "complete" => level[1] = "complete"
  /\ manifestLen \in [Meetings -> 0..MaxLen]
  /\ InitProcs({1})
  /\ InitFs

Next ==
  \E p \in {1} :
    \/ loadProgress(p)
    \/ SkipCompleted(p)
    \/ MetadataFailed(p)
    \/ BeginMeeting(p)
    \/ OptCheckExisting(p)
    \/ fetchSubsStart(p)
    \/ fetchSubsManifestError(p)
    \/ FetchSegment(p)
    \/ FetchSegmentError(p)
    \/ fetchSubsDone(p)
    \/ OptSelect(p)
    \/ OptConcat(p)
    \/ OptConcatError(p)
    \/ OptFfmpeg(p)
    \/ OptFfmpegError(p)
    \/ OptCleanup(p)
    \/ OptVerify(p)
    \/ OptRecordSuccess(p)
    \/ OptRecordFailure(p)
    \/ CplCheckExisting(p)
    \/ CplMove(p)
    \/ CplConcat(p)
    \/ CplConcatError(p)
    \/ InvokeStrategy(p) /\ UNCHANGED log
    \/ InvokeStrategyError(p) /\ UNCHANGED log
    \/ CplAfterLoop(p)
    \/ CplRecord(p)
    \/ FinishBatch(p)
    \/ Interrupt(p)
    \/ Rerun(p)

Spec == Init /\ [][Next]_vars


\* --------------------------------- the extraction loops on their own (LoopSpec)
LoopScripts == {"complete", "full", "stream", "extractAll", "v2"}

\* a file left by an earlier run
Stale(size) == [size |-> size, by |-> [m |-> 1, p |-> 1, b |-> 0], strat |-> 0]

\* what can lie at the loop's output path when the loop is entered: nothing,
\* or a file the function's already-exists check did not take as complete
PreOutputs(s) ==
  CASE s = "complete" -> {NoFile} \cup {Stale(n) : n \in {n \in LoopSizes(s) : ~CplAlreadyExists(n)}}
    [] s = "full"     -> {NoFile} \cup {Stale(n) : n \in {n \in LoopSizes(s) : ~(n > FullSkipMin)}}
    [] s = "stream"   -> {NoFile} \cup {Stale(n) : n \in LoopSizes(s)}
    [] OTHER          -> {NoFile}

WithOutput(dir, name, f) == IF f = NoFile THEN dir ELSE WriteFile(dir, name, f)

OldSeg == [by |-> [m |-> 1, p |-> 1, b |-> 0], whole |-> TRUE]

\* the loop is entered for meeting 1 with the files its script has made by then:
\* the assembled video, the segments it came from, and what PreOutputs allows
LoopInit ==
  /\ script \in [{1} -> LoopScripts]
  /\ level = [p \in {1} |-> "complete"]
  /\ manifestLen = [m \in Meetings |-> 1]
  /\ pc = [p \in {1} |-> "extract"]
  /\ batchRun = [p \in {1} |-> 1]
  /\ cur = [p \in {1} |-> 1]
  /\ completed = [p \in {1} |-> {}]
  /\ i = [p \in {1} |-> 0]
  /\ selectedFiles = [p \in {1} |-> IF script[1] = "complete" THEN << Seg(0) >> ELSE << >>]
  /\ extractionSuccess = [p \in {1} |-> FALSE]
  /\ result = [p \in {1} |-> "none"]
  /\ successCount = [p \in {1} |-> 0]
  /\ skippedCount = [p \in {1} |-> 0]
  /\ log = [p \in {1} |-> << >>]
  /\ netReq = [p \in {1} |-> {}]
  /\ assembled = [p \in {1} |-> << OldSeg >>]
  /\ progressFile = {}
  /\ okArtifact = [m \in Meetings |-> NoFile]
  /\ returnedTrue = {}
  /\ listing = << >>
  /\ srt = << >>
  /\ analysis = [done |-> FALSE]
  /\ sampleRate = 10
  /\ tracks = << >>
  /\ hasVariant = [m \in Meetings |-> TRUE]
  /\ subsDir = (script[1] = "v2")
  /\ subsSeg = IF script[1] = "v2" THEN WriteFile(EmptyDir, 0, OldSeg) ELSE EmptyDir
  /\ subsMisc = IF script[1] = "v2" THEN WriteFile(EmptyDir, "video.ts", Stale(1)) ELSE EmptyDir
  /\ mdirSeg = [m \in Meetings |->
                  IF m = 1 /\ script[1] \in {"complete", "extractAll"}
                    THEN WriteFile(EmptyDir, 0, OldSeg) ELSE EmptyDir]
  /\ \E pre \in PreOutputs(script[1]) :
       mdirMisc = [m \in Meetings |->
                     IF m # 1 THEN EmptyDir
                     ELSE WithOutput(
                            CASE script[1] = "complete" ->
                                   WriteFile(EmptyDir, "complete_video.ts", Stale(1))
                              [] script[1] = "extractAll" ->
                                   WriteFile(EmptyDir, "video.ts", Stale(1))
                              [] OTHER -> EmptyDir,
                            OutName(script[1], 1), pre)]

LoopNext ==
  \E p \in {1} :
    \/ InvokeStrategy(p) /\ Logged(p, "ok")
    \/ InvokeStrategyError(p) /\ Logged(p, "fail")
    \/ CplAfterLoop(p)
    \/ FullAfterLoop(p)
    \/ StreamAfterLoop(p)
    \/ ExtractAllAfterLoop(p)
    \/ V2AfterLoop(p)

LoopSpec == LoopInit /\ [][LoopNext]_vars

\* the loops whose execSync carries a timeout: every invocation returns or throws
TimedScripts == {"complete", "full", "stream"}

TimedStep == script[1] \in TimedScripts /\ LoopNext

LoopFair == LoopSpec /\ WF_vars(TimedStep)

\* ------------------------ one sampled download on long manifests (SampleSpec)
\* manifest lengths around the strides and the caps of the levels
SampleLens == {0, 1, 51, 230}

\* extractOptimizedSubtitles has found no captions.srt for meeting 1 and is
\* about to run fetchSubs.ts; the network and the tools do not fail
SampleInit ==
  /\ script = [p \in {1} |-> "optimized"]
  /\ level \in [{1} -> LevelNames]
  /\ \E n \in SampleLens : manifestLen = [m \in Meetings |-> IF m = 1 THEN n ELSE 0]
  /\ InitProcsAt({1}, "fetch")
  /\ InitFs

SampleNext ==
  \E p \in {1} :
    \/ fetchSubsStart(p)
    \/ FetchSegment(p)
    \/ fetchSubsDone(p)
    \/ OptSelect(p)
    \/ OptConcat(p)

SampleSpec == SampleInit /\ [][SampleNext]_vars

\* --------------------- two batch runs in one working directory (ConcSpec)
\* the README's recipe: `tsx fetchMCPSOptimized.ts 25 balanced &' twice
ConcInit ==
  /\ script = [p \in {1, 2} |-> "optimized"]
  /\ level = [p \in {1, 2} |-> "balanced"]
  /\ manifestLen = [m \in Meetings |-> 1]
  /\ InitProcs({1, 2})
  /\ InitFs

ConcNext ==
  \E p \in {1, 2} :
    \/ loadProgress(p)
    \/ SkipCompleted(p)
    \/ MetadataFailed(p)
    \/ BeginMeeting(p)
    \/ OptCheckExisting(p)
    \/ fetchSubsStart(p)
    \/ fetchSubsManifestError(p)
    \/ FetchSegment(p)
    \/ FetchSegmentError(p)
    \/ fetchSubsDone(p)
    \/ OptSelect(p)
    \/ OptConcat(p)
    \/ OptConcatError(p)
    \/ OptFfmpeg(p)
    \/ OptFfmpegError(p)
    \/ OptCleanup(p)
    \/ OptVerify(p)
    \/ OptRecordSuccess(p)
    \/ OptRecordFailure(p)
    \/ FinishBatch(p)

ConcSpec == ConcInit /\ [][ConcNext]_vars

\* ------- one batch run in a fresh directory, not interrupted, with short
\* segment bodies (RunSpec); nothing is completed yet, so nothing is skipped
RunNext ==
  \E p \in {1} :
    \/ loadProgress(p)
    \/ MetadataFailed(p)
    \/ BeginMeeting(p)
    \/ OptCheckExisting(p)
    \/ fetchSubsStart(p)
    \/ fetchSubsManifestError(p)
    \/ FetchSegment(p)
    \/ FetchSegmentShort(p)
    \/ FetchSegmentError(p)
    \/ fetchSubsDone(p)
    \/ OptSelect(p)
    \/ OptConcat(p)
    \/ OptConcatError(p)
    \/ OptFfmpeg(p)
    \/ OptFfmpegError(p)
    \/ OptCleanup(p)
    \/ OptVerify(p)
    \/ OptRecordSuccess(p)
    \/ OptRecordFailure(p)
    \/ CplCheckExisting(p)
    \/ CplMove(p)
    \/ CplConcat(p)
    \/ CplConcatError(p)
    \/ InvokeStrategy(p) /\ Logged(p, "ok")
    \/ InvokeStrategyError(p) /\ Logged(p, "fail")
    \/ CplAfterLoop(p)
    \/ CplRecord(p)
    \/ FinishBatch(p)

RunSpec == Init /\ [][RunNext]_vars

\* ----------------------- the order of segment file names (OrderSpec)
\* manifest lengths around the powers of ten, and the indices at their edges
OrderLens == {2, 11, 101, 1001, 10000, 10001, 10002}

EdgeIndices == {0, 1, 9, 10, 99, 100, 999, 1000, 9999, 10000, 10001}

\* fetchSubs.ts has written segments 0 .. L - 1 of meeting 1
OrderInit ==
  /\ script = [p \in {1} |-> "complete"]
  /\ level = [p \in {1} |-> "complete"]
  /\ \E n \in OrderLens : manifestLen = [m \in Meetings |-> IF m = 1 THEN n ELSE 0]
  /\ InitProcsAt({1}, "move")
  /\ InitFs

\* where files.sort() and the glob segment_*.ts put two of the written files
ListPair(a, b) ==
  /\ a < b /\ b < manifestLen[1]
  /\ listing' = SortNames({Seg(a), Seg(b)})
  /\ UNCHANGED << script, level, manifestLen, hasVariant, sampleRate, tracks, srt,
                  analysis, pc, mainVars, subsVars,
                  mdirVars, runVars, result, okArtifact, returnedTrue >>

OrderNext == \E a, b \in EdgeIndices : ListPair(a, b)

OrderSpec == OrderInit /\ [][OrderNext]_vars

\* ------------------------------- analyzeSubtitles.ts (AnalyzeSpec)
\* an SRT timestamp HH:MM:SS,mmm
Ts(h, m, sec, ms) == [h |-> h, m |-> m, s |-> sec, ms |-> ms]

\* parseTimestamp, in milliseconds (the code returns seconds with a fraction)
parseTimestamp(t) == (t.h * 3600 + t.m * 60 + t.s) * 1000 + t.ms

\* a formatter that always prints the three units
formatDurationAllUnits(ms) ==
  ToString(ms \div 3600000) \o "h " \o ToString((ms % 3600000) \div 60000) \o "m "
    \o ToString((ms % 60000) \div 1000) \o "s"

\* formatDuration of a time in milliseconds
formatDuration(ms) ==
  LET hours == ms \div 3600000
      minutes == (ms % 3600000) \div 60000
      secs == (ms % 60000) \div 1000
  IN  IF hours > 0
        THEN ToString(hours) \o "h " \o ToString(minutes) \o "m " \o ToString(secs) \o "s"
      ELSE IF minutes > 0
        THEN ToString(minutes) \o "m " \o ToString(secs) \o "s"
      ELSE ToString(secs) \o "s"

\* analyzeSubtitleFile on the lines that contain `-->'
analyzeSubtitleFile(timestamps) ==
  IF Len(timestamps) = 0 THEN [done |-> TRUE, hasDuration |-> FALSE]
  ELSE LET lastTimestamp == timestamps[Len(timestamps)]
           \* lastTimestamp.split('-->')[0].trim()
           lastTime == parseTimestamp(lastTimestamp.start)
       IN  [done |-> TRUE, hasDuration |-> TRUE, lastTimestamp |-> lastTimestamp,
            lastTime |-> lastTime, duration |-> formatDuration(lastTime)]

SampleTimes ==
  { Ts(0, 0, 11, 512), Ts(0, 0, 13, 985), Ts(0, 1, 0, 0), Ts(0, 17, 3, 250),
    Ts(0, 59, 59, 999),
    Ts(1, 0, 0, 0),
    Ts(2, 17, 20, 100), Ts(2, 17, 23, 477) }

Cues == {c \in [start : SampleTimes, end : SampleTimes] :
           parseTimestamp(c.start) < parseTimestamp(c.end)}

MaxCues == 2

\* caption files: cues that follow one another in time
CueFiles ==
  UNION {{f \in [1..n -> Cues] :
            \A k \in 1..(n - 1) : parseTimestamp(f[k].end) <= parseTimestamp(f[k + 1].start)}
         : n \in 0..MaxCues}

AnalyzeInit ==
  /\ script = [p \in {1} |-> "analyze"]
  /\ level = [p \in {1} |-> "complete"]
  /\ manifestLen = [m \in Meetings |-> 0]
  /\ InitProcsAt({1}, "analyze")
  /\ progressFile = {}
  /\ subsDir = FALSE
  /\ subsSeg = EmptyDir
  /\ subsMisc = EmptyDir
  /\ mdirSeg = [m \in Meetings |-> EmptyDir]
  /\ mdirMisc = [m \in Meetings |-> EmptyDir]
  /\ okArtifact = [m \in Meetings |-> NoFile]
  /\ returnedTrue = {}
  /\ listing = << >>
  /\ srt \in CueFiles
  /\ analysis = [done |-> FALSE]
  /\ sampleRate = 10
  /\ tracks = << >>
  /\ hasVariant = [m \in Meetings |-> TRUE]

Analyze ==
  /\ ~analysis.done
  /\ analysis' = analyzeSubtitleFile(srt)
  /\ UNCHANGED << script, level, manifestLen, hasVariant, sampleRate, tracks, listing,
                  srt, pc, mainVars, subsVars,
                  mdirVars, runVars, result, okArtifact, returnedTrue >>

AnalyzeNext == Analyze

AnalyzeSpec == AnalyzeInit /\ [][AnalyzeNext]_vars

\* the caption file a batch runner's per-meeting function looks for and writes
CaptionName(s) == IF s = "complete" THEN "captions_complete.srt" ELSE "captions.srt"

\* ------------- a batch run after an earlier one, every step returning (BatchFair)
\* the caption file an earlier run left for a meeting it completed
EarlierCaptions(s) ==
  [size |-> IF s = "complete" THEN CplSkipMin + 1 ELSE OptSkipMin + 1,
   by |-> [m |-> 0, p |-> 1, b |-> 0], strat |-> 1]

\* the meetings of .progress.json were completed by an earlier run, which left
\* their metadata.json and captions; fetchMCPSComplete also left ./subs, empty
BatchInit ==
  /\ script \in [{1} -> {"optimized", "complete"}]
  /\ level \in [{1} -> LevelNames]
  /\ script[1] = "complete" => level[1] = "complete"
  /\ manifestLen \in [Meetings -> 0..MaxLen]
  /\ InitProcs({1})
  /\ progressFile \in SUBSET Meetings
  /\ subsDir = (script[1] = "complete" /\ progressFile # {})
  /\ subsSeg = EmptyDir
  /\ subsMisc = EmptyDir
  /\ mdirSeg = [m \in Meetings |-> EmptyDir]
  /\ mdirMisc = [m \in Meetings |->
                   IF m \in progressFile
                     THEN WriteFile(WriteFile(EmptyDir, "metadata.json", MetaFile(m)),
                                    CaptionName(script[1]), EarlierCaptions(script[1]))
                     ELSE EmptyDir]
  /\ okArtifact = [m \in Meetings |->
                     IF m \in progressFile THEN EarlierCaptions(script[1]) ELSE NoFile]
  /\ returnedTrue = progressFile
  /\ listing = << >>
  /\ srt = << >>
  /\ analysis = [done |-> FALSE]
  /\ sampleRate = 10
  /\ tracks = << >>
  /\ hasVariant = [m \in Meetings |-> TRUE]

BatchNext ==
  \E p \in {1} :
    \/ loadProgress(p)
    \/ SkipCompleted(p)
    \/ MetadataFailed(p)
    \/ BeginMeeting(p)
    \/ OptCheckExisting(p)
    \/ fetchSubsStart(p)
    \/ fetchSubsManifestError(p)
    \/ FetchSegment(p)
    \/ FetchSegmentError(p)
    \/ fetchSubsDone(p)
    \/ OptSelect(p)
    \/ OptConcat(p)
    \/ OptConcatError(p)
    \/ OptFfmpeg(p)
    \/ OptFfmpegError(p)
    \/ OptCleanup(p)
    \/ OptVerify(p)
    \/ OptRecordSuccess(p)
    \/ OptRecordFailure(p)
    \/ CplCheckExisting(p)
    \/ CplMove(p)
    \/ CplConcat(p)
    \/ CplConcatError(p)
    \/ InvokeStrategy(p) /\ UNCHANGED log
    \/ InvokeStrategyError(p) /\ UNCHANGED log
    \/ CplAfterLoop(p)
    \/ CplRecord(p)
    \/ FinishBatch(p)

\* every call of main returns or throws: the requests and the tools end (by
\* their timeouts at the latest), so the run always takes its next step
BatchFair == BatchInit /\ [][BatchNext]_vars /\ WF_vars(BatchNext)

\* ------------- master playlists with and without a variant (ResolveSpec)
ResolveInit ==
  /\ script \in [{1} -> {"optimized", "complete"}]
  /\ level \in [{1} -> LevelNames]
  /\ script[1] = "complete" => level[1] = "complete"
  /\ manifestLen \in [Meetings -> 0..MaxLen]
  /\ hasVariant \in [Meetings -> BOOLEAN]
  /\ tracks = << >>
  /\ InitProcs({1})
  /\ InitDisk

ResolveNext ==
  \E p \in {1} :
    \/ loadProgress(p)
    \/ MetadataFailed(p)
    \/ BeginMeeting(p)
    \/ OptCheckExisting(p)
    \/ fetchSubsStart(p)
    \/ fetchSubsNoVariant(p)
    \/ fetchSubsManifestError(p)
    \/ FetchSegment(p)
    \/ FetchSegmentError(p)
    \/ fetchSubsDone(p)
    \/ OptSelect(p)
    \/ OptConcat(p)
    \/ OptConcatError(p)
    \/ OptFfmpeg(p)
    \/ OptFfmpegError(p)
    \/ OptCleanup(p)
    \/ OptVerify(p)
    \/ OptRecordSuccess(p)
    \/ OptRecordFailure(p)
    \/ CplCheckExisting(p)
    \/ CplMove(p)
    \/ CplConcat(p)
    \/ CplConcatError(p)
    \/ InvokeStrategy(p) /\ UNCHANGED log
    \/ InvokeStrategyError(p) /\ UNCHANGED log
    \/ CplAfterLoop(p)
    \/ CplRecord(p)
    \/ FinishBatch(p)

ResolveSpec == ResolveInit /\ [][ResolveNext]_vars

\* ------------- the stride filter on its own (StrideSpec)
MaxIdx == 6
MaxStride == 4

\* fetchSubs.ts has left any set of segment files in ./subs, `files' is their
\* sorted listing, and the caller is about to filter it with any stride
StrideInit ==
  /\ script = [p \in {1} |-> "sample"]
  /\ level = [p \in {1} |-> "complete"]
  /\ manifestLen = [m \in Meetings |-> 0]
  /\ hasVariant = [m \in Meetings |-> TRUE]
  /\ InitProcsAt({1}, "select")
  /\ progressFile = {}
  /\ subsDir = TRUE
  /\ \E S \in SUBSET (0..MaxIdx) :
       /\ subsSeg = [k \in S |-> OldSeg]
       /\ listing = SortNames({Seg(k) : k \in S})
  /\ subsMisc = EmptyDir
  /\ mdirSeg = [m \in Meetings |-> EmptyDir]
  /\ mdirMisc = [m \in Meetings |-> EmptyDir]
  /\ okArtifact = [m \in Meetings |-> NoFile]
  /\ returnedTrue = {}
  /\ srt = << >>
  /\ analysis = [done |-> FALSE]
  /\ sampleRate \in 1..MaxStride
  /\ tracks = << >>

\* part_001 line 126: sampleFiles = files.filter((_, index) => index % sampleRate === 0)
SampleStep(p) ==
  /\ pc[p] = "select"
  /\ script[p] = "sample"
  /\ selectedFiles' = [selectedFiles EXCEPT ![p] = StrideFilter(listing, sampleRate)]
  /\ Goto(p, "concat")
  /\ UNCHANGED << cfgVars, subsVars, mdirVars, mainVars, i, extractionSuccess, log,
                  netReq, assembled, result, okArtifact, returnedTrue >>

StrideNext == \E p \in {1} : SampleStep(p)

StrideSpec == StrideInit /\ [][StrideNext]_vars

\* ------------- saveProgress step by step, with interrupts (SaveSpec)
\* lines 260-261 and 66: completed.add(meetingId), then fs.writeFile opens
\* .progress.json for writing, which empties it
OptSaveOpen(p) ==
  /\ pc[p] = "returned"
  /\ script[p] = "optimized"
  /\ result[p] = "true"
  /\ completed' = [completed EXCEPT ![p] = @ \cup {cur[p]}]
  /\ progressFile' = {}
  /\ Goto(p, "saving")
  /\ UNCHANGED << cfgVars, subsVars, mdirVars, batchRun, cur, successCount,
                  skippedCount, runVars, result, okArtifact, returnedTrue >>

\* lines 66-69 and 262: the JSON text is written, then successCount++
OptSaveWrite(p) ==
  /\ pc[p] = "saving"
  /\ progressFile' = completed[p]
  /\ successCount' = [successCount EXCEPT ![p] = @ + 1]
  /\ NextMeeting(p)
  /\ DropLocals(p)
  /\ Goto(p, "loop")
  /\ UNCHANGED << cfgVars, subsVars, mdirVars, batchRun, completed, skippedCount,
                  okArtifact, returnedTrue >>

\* a fetchMCPSOptimized batch after an earlier one
SaveInit == BatchInit /\ script[1] = "optimized"

SaveNext ==
  \E p \in {1} :
    \/ loadProgress(p)
    \/ SkipCompleted(p)
    \/ MetadataFailed(p)
    \/ BeginMeeting(p)
    \/ OptCheckExisting(p)
    \/ fetchSubsStart(p)
    \/ fetchSubsManifestError(p)
    \/ FetchSegment(p)
    \/ FetchSegmentError(p)
    \/ fetchSubsDone(p)
    \/ OptSelect(p)
    \/ OptConcat(p)
    \/ OptConcatError(p)
    \/ OptFfmpeg(p)
    \/ OptFfmpegError(p)
    \/ OptCleanup(p)
    \/ OptVerify(p)
    \/ OptSaveOpen(p)
    \/ OptSaveWrite(p)
    \/ OptRecordFailure(p)
    \/ FinishBatch(p)
    \/ Interrupt(p)

SaveSpec == SaveInit /\ [][SaveNext]_vars

\* ------------- fetchSubs.ts on master playlists with subtitle tracks (VttSpec)
MaxTracks == 2

\* a declared track: has it a uri, its LANGUAGE and its NAME
Tracks == [uri : BOOLEAN, language : {"", "en", "EN"}, name : {"", "English"}]

\* fetchSubs.ts is run for meeting 1 in a directory without ./subs
VttInit ==
  /\ script \in [{1} -> {"optimized", "complete"}]
  /\ level = [p \in {1} |-> "complete"]
  /\ manifestLen = [m \in Meetings |-> 1]
  /\ hasVariant = [m \in Meetings |-> TRUE]
  /\ InitProcsAt({1}, "fetch")
  /\ InitDisk
  /\ tracks \in UNION {[1..n -> Tracks] : n \in 0..MaxTracks}

VttNext ==
  \E p \in {1} :
    \/ concatWebVttStart(p)
    \/ concatWebVttTrack(p)
    \/ concatWebVttError(p)
    \/ concatWebVttDone(p)
    \/ fetchSubsStart(p)
    \/ FetchSegment(p)
    \/ FetchSegmentError(p)
    \/ fetchSubsDone(p)

VttSpec == VttInit /\ [][VttNext]_vars

\* ------------------------------------------------------------------ claims
\* a logged invocation that exited 0 and left an output above the threshold
Valid(s, e) == e.exit = "ok" /\ e.after > AcceptMin(s)

Exhausted(p) ==
  /\ Len(log[p]) = NumStrategies(script[p])
  /\ \A k \in 1..Len(log[p]) : log[p][k].strat = k /\ ~Valid(script[p], log[p][k])

NoStrategyTwice(p) ==
  \A j, k \in 1..Len(log[p]) : j # k => log[p][j].strat # log[p][k].strat

C10_AcceptedOnlyAboveThreshold ==
  \A p \in Procs :
    (pc[p] \in {"extract", "returned"} /\ extractionSuccess[p])
       => Len(log[p]) > 0 /\ Valid(script[p], log[p][Len(log[p])])

\* the artifact the last successful run of p's meeting accepted is still there
SucceededBefore(p) ==
  /\ cur[p] \in returnedTrue
  /\ okArtifact[cur[p]] # NoFile
  /\ Exists(mdirMisc[cur[p]], CaptionName(script[p]))
  /\ mdirMisc[cur[p]][CaptionName(script[p])] = okArtifact[cur[p]]

\* C2: the per-meeting function, entered for a meeting whose earlier run was a
\* success with its artifact still present, does not go on to download
C2_RerunIsNoOp ==
  \A p \in Procs : SucceededBefore(p) => pc[p] \notin {"fetch", "segments"}

\* C3: when a per-meeting run has returned, ./subs does not exist
C3_ScratchAbsentAfterRun ==
  \A p \in Procs : pc[p] = "returned" => ~subsDir

\* C4: when the download loop starts ./subs holds no segment file, and every
\* segment that is concatenated was fetched by this run for this meeting
C4_NoStaleSegments ==
  \A p \in Procs :
    /\ (pc[p] = "segments" /\ i[p] = 0) => DOMAIN subsSeg = {}
    /\ \A k \in 1..Len(assembled[p]) : assembled[p][k].by = RunTag(p)

\* C6: a meeting is in the completed array of .progress.json only if its
\* per-meeting function has returned true
C6_CompletedOnlyAfterSuccess == progressFile \subseteq returnedTrue

\* C8: a run over a manifest without segments requests no segment and returns
\* false
C8_EmptySelectionFails ==
  \A p \in Procs :
    (pc[p] = "returned" /\ manifestLen[cur[p]] = 0)
       => netReq[p] = {} /\ result[p] = "false"

\* the first c elements of {0, n, 2n, ...} below L
StrideThenCap(L, n, c) == {k \in 0..(L - 1) : k % n = 0 /\ k \div n < c}

\* C5: under a level with a stride n > 1 and a cap c > 0, the segments requested
\* over the network and the segments handed to cat are both the first c
\* elements of {0, n, 2n, ...} below the manifest's length
C5_StrideThenCap ==
  \A p \in Procs :
    LET o == optimizationLevels[level[p]]
        want == StrideThenCap(manifestLen[cur[p]], o.segmentSampleRate, o.maxSegments)
    IN  (pc[p] = "ffmpeg" /\ o.segmentSampleRate > 1 /\ o.maxSegments > 0)
           => /\ netReq[p] = want
              /\ {selectedFiles[p][k].idx : k \in 1..Len(selectedFiles[p])} = want

\* the run of p is between fetchSubs' mkdir of ./subs and its own fs.rm of it
InScratch(p) == pc[p] \in {"segments", "select", "concat", "ffmpeg", "cleanup"}

\* C7: while one of two concurrent batch runs is using its scratch directory,
\* the other run is not using the same directory
C7_ExclusiveScratch ==
  \A p, q \in Procs : (p # q /\ InScratch(p)) => ~InScratch(q)

\* C11: extraction (ffmpeg on the assembled file) is reached only when every
\* segment file that was concatenated holds its whole segment
C11_AssemblyChecksSegments ==
  \A p \in Procs :
    pc[p] \in {"ffmpeg", "extract"} =>
      \A k \in 1..Len(assembled[p]) : assembled[p][k].whole

\* C12: the files of two segments come in the order of their indices when
\* the names are sorted (files.sort()) or expanded by the shell (segment_*.ts)
C12_NameOrderIsIndexOrder ==
  listing # << >> => listing[1].idx < listing[2].idx

\* C13: for a caption file with at least one cue the analyzer's last time is
\* the end of the last cue and the duration is formatted from it; a last cue
\* 02:17:20,100 --> 02:17:23,477 gives 8243477 ms and "2h 17m 23s"
C13_DurationFromLastCueEnd ==
  (analysis.done /\ Len(srt) > 0) =>
    LET last == srt[Len(srt)]
    IN  /\ analysis.lastTime = parseTimestamp(last.end)
        /\ analysis.duration = formatDuration(parseTimestamp(last.end))
        /\ last = [start |-> Ts(2, 17, 20, 100), end |-> Ts(2, 17, 23, 477)]
             => analysis.lastTime = 8243477 /\ analysis.duration = "2h 17m 23s"

\* a meeting that is not completed is reached by the main loop
Attempted(m) == pc[1] = "loop" /\ cur[1] = m /\ m \notin completed[1]

\* C14: whatever fails in a meeting, the main loop goes through the list in
\* order, reaches every meeting that .progress.json does not list, and arrives
\* at the final summary
C14_BatchGoesOn ==
  /\ [][cur'[1] = cur[1] \/ cur'[1] = cur[1] + 1]_vars
  /\ \A m \in Meetings : (m \notin progressFile) => <>Attempted(m)
  /\ <>(pc[1] = "done")

\* meeting 1 has failed in a stage after its metadata, and meeting 2 is reached
C14_Witness ==
  /\ Attempted(2)
  /\ 1 \notin progressFile
  /\ Exists(mdirMisc[1], "metadata.json")
  /\ ~Exists(mdirMisc[1], CaptionName(script[1]))

\* C15: when the master playlist has no subtitle track and no variant,
\* fetchSubs does not exit normally (the caller never goes on past it), and the
\* meeting is neither returned as true nor recorded as completed
C15_NoVariantIsFailure ==
  \A p \in Procs :
    /\ pc[p] \in {"select", "move"} => hasVariant[cur[p]]
    /\ \A m \in Meetings :
         ~hasVariant[m] => m \notin returnedTrue /\ m \notin completed[p]

\* C16: in fetchMCPSComplete a run concatenates or extracts only after every
\* segment of the manifest was requested and written by that run, and the step
\* in which a segment fetch fails returns false with nothing concatenated or
\* extracted
C16_FetchFailureAborts ==
  /\ [](\A p \in Procs :
          (/\ script[p] = "complete"
           /\ pc[p] \in {"concat", "extract"} \/ Len(assembled[p]) > 0 \/ Len(log[p]) > 0) =>
            /\ netReq[p] = 0..(manifestLen[cur[p]] - 1)
            /\ pc[p] \in {"concat", "extract"} =>
                 \A k \in netReq[p] :
                   k \in DOMAIN mdirSeg[cur[p]] /\ mdirSeg[cur[p]][k].by = RunTag(p))
  /\ [][(script[1] = "complete" /\ pc[1] = "segments" /\ pc'[1] = "returned") =>
          /\ result'[1] = "false"
          /\ assembled'[1] = << >>
          /\ log'[1] = << >>]_vars

\* the second segment of a meeting failed after the first was written
C16_Witness ==
  /\ script[1] = "complete"
  /\ pc[1] = "returned"
  /\ result[1] = "false"
  /\ netReq[1] = {0, 1}
  /\ DOMAIN subsSeg = {0}
  /\ assembled[1] = << >>
  /\ log[1] = << >>

\* C17: once the extraction loop of fetchMCPSComplete or extractAllSubtitles
\* has terminated, with or without an artifact, no segment file and no
\* assembled media file (complete_video.ts, video.ts) is left in the meeting
\* directory
C17_MediaRemovedAfterLoop ==
  \A p \in Procs :
    (script[p] \in {"complete", "extractAll"} /\ pc[p] = "returned" /\ Len(log[p]) > 0) =>
      /\ DOMAIN mdirSeg[cur[p]] = {}
      /\ ~Exists(mdirMisc[cur[p]], "complete_video.ts")
      /\ ~Exists(mdirMisc[cur[p]], "video.ts")

\* C18: when a run of the per-meeting function returns false for a meeting
\* whose caption file an earlier run had accepted, that file is still in the
\* meeting directory with the content the earlier run accepted
C18_ArtifactSurvivesFailure ==
  \A p \in Procs :
    (/\ pc[p] = "returned"
     /\ result[p] = "false"
     /\ okArtifact[cur[p]] # NoFile
     /\ okArtifact[cur[p]].by # RunTag(p)) =>
      /\ Exists(mdirMisc[cur[p]], CaptionName(script[p]))
      /\ mdirMisc[cur[p]][CaptionName(script[p])] = okArtifact[cur[p]]

\* the meeting directory holds a caption file larger than the script's
\* acceptance threshold
HasCaptions(p, m) ==
  SizeOf(mdirMisc[m], CaptionName(script[p])) >
    (IF script[p] = "complete" THEN CplAcceptMin ELSE OptAcceptMin)

\* C19: the per-meeting function returns true only with such a caption file in
\* the meeting directory, and the counter printed as Completed / Successful
\* counts no more meetings than have one
C19_SuccessMeansCaptions ==
  \A p \in Procs :
    /\ (pc[p] = "returned" /\ result[p] = "true") => HasCaptions(p, cur[p])
    /\ successCount[p] <= Cardinality({m \in Meetings : HasCaptions(p, m)})

\* C20: under a level with a stride n > 1 the segments handed to cat are the
\* indices {0, n, 2n, ...} of the whole manifest of length L, so the largest
\* of them is at least L - n
C20_StrideOverWholeManifest ==
  \A p \in Procs :
    LET n == optimizationLevels[level[p]].segmentSampleRate
        L == manifestLen[cur[p]]
        sel == {selectedFiles[p][k].idx : k \in 1..Len(selectedFiles[p])}
    IN  (pc[p] = "ffmpeg" /\ n > 1) =>
          /\ sel = {k \in 0..(L - 1) : k % n = 0}
          /\ \E k \in sel : k >= L - n

\* the place of file f in the listing
PosIn(files, f) == CHOOSE q \in 1..Len(files) : files[q] = f

C22_AllSegmentsInOrder ==
  \A p \in Procs :
    (script[p] = "optimized" /\ level[p] = "complete" /\ pc[p] = "ffmpeg") =>
      LET L == manifestLen[cur[p]]
      IN  /\ netReq[p] = 0..(L - 1)
          /\ selectedFiles[p] = [k \in 1..L |-> Seg(k - 1)]

\* C23: with a segment limit k >= 1 and a manifest of L segments, fetchSubs
\* requests the segments in ascending order from 0, never one with an index of
\* k or more, and when its loop is over it has requested 0 .. min(k, L) - 1
C23_CapIsPrefix ==
  \A p \in Procs :
    LET k == MaxSegmentsArg(p)
        L == manifestLen[cur[p]]
    IN  k >= 1 =>
          /\ pc[p] = "segments" => netReq[p] = 0..(i[p] - 1)
          /\ \A q \in netReq[p] : q < k /\ q < L
          /\ pc[p] \in {"select", "concat", "ffmpeg"} => netReq[p] = 0..(Min(k, L) - 1)

\* level fast (limit 200) on a manifest of 230 segments: 0 .. 199 were requested
C23_Witness ==
  /\ pc[1] = "select"
  /\ level[1] = "fast"
  /\ manifestLen[1] = 230
  /\ netReq[1] = 0..199

\* C24: the duration string of a time of s seconds is "{h}h {m}m {sec}s" when
\* h = floor(s / 3600) > 0, "{m}m {sec}s" when h = 0 and
\* m = floor((s mod 3600) / 60) > 0, and "{sec}s" otherwise, with
\* sec = floor(s mod 60); 1023 seconds give "17m 3s"
C24_DurationBuckets ==
  (analysis.done /\ analysis.hasDuration) =>
    LET s == analysis.lastTime \div 1000
        h == s \div 3600
        m == (s % 3600) \div 60
        sec == s % 60
        hh == ToString(h) \o "h "
        mm == ToString(m) \o "m "
        ss == ToString(sec) \o "s"
    IN  /\ h > 0 => analysis.duration = hh \o mm \o ss
        /\ (h = 0 /\ m > 0) => analysis.duration = mm \o ss
        /\ (h = 0 /\ m = 0) => analysis.duration = ss
        /\ s = 1023 => analysis.duration = "17m 3s"

\* a file whose last cue starts at 00:17:03,250 has been analyzed
C24_Witness ==
  /\ analysis.done
  /\ analysis.hasDuration
  /\ analysis.lastTime = 1023250
  /\ analysis.duration = "17m 3s"

\* the meeting directory as the earlier run that completed m left it
EarlierDir(m) ==
  WriteFile(WriteFile(EmptyDir, "metadata.json", MetaFile(m)),
            CaptionName(script[1]), EarlierCaptions(script[1]))

\* C25: a meeting that is in .progress.json when the batch starts is skipped:
\* the run is never inside the pipeline for it, its directory stays as it was,
\* it is counted as skipped once the loop has passed it, and it stays in
\* .progress.json
C25_CompletedIsSkipped ==
  \A S \in SUBSET Meetings :
    (progressFile = S) =>
      [](pc[1] # "start" =>
           /\ \A m \in S :
                /\ m \in progressFile
                /\ cur[1] = m => pc[1] = "loop"
                /\ mdirMisc[m] = EarlierDir(m)
                /\ mdirSeg[m] = EmptyDir
           /\ skippedCount[1] = Cardinality({m \in S : m < cur[1]}))

\* meeting 1 was processed in this run and meeting 2, completed earlier, skipped
C25_Witness ==
  /\ pc[1] = "done"
  /\ skippedCount[1] = 1
  /\ successCount[1] = 1
  /\ progressFile = Meetings
  /\ mdirMisc[2] = EarlierDir(2)

\* strategy k of the list was the last one invoked and it failed
FailedAt(p, k) == Len(log[p]) = k /\ log[p][k].exit = "fail"

\* C26: after a strategy that is not the last of its list has failed, the loop
\* is neither left nor over, and (where the invocations have a timeout) the
\* next strategy of the list is invoked
C26_FailureIsNotFatal ==
  /\ [](\A p \in Procs : \A k \in 1..(NumStrategies(script[p]) - 1) :
          FailedAt(p, k) => pc[p] = "extract" /\ ~LoopOver(p))
  /\ \A k \in 1..2 :
       (script[1] \in TimedScripts /\ FailedAt(1, k))
          ~> (Len(log[1]) = k + 1 /\ log[1][k + 1].strat = k + 1)

\* the first two strategies of downloadFullMeetings failed and the third ran
C26_Witness ==
  /\ script[1] = "full"
  /\ Len(log[1]) = 3
  /\ log[1][1].exit = "fail"
  /\ log[1][2].exit = "fail"
  /\ log[1][3].strat = 3

\* the meeting whose pipeline run p is inside, if any
InFlight(p) == IF pc[p] \in {"start", "loop", "done"} THEN {} ELSE {cur[p]}

\* C27: during a fetchMCPSOptimized batch .progress.json holds every meeting
\* whose extraction has returned true, in an earlier batch or in this one,
\* except at most the one in flight, and no other meeting
C27_ProgressFollowsSuccess ==
  /\ (returnedTrue \ InFlight(1)) \subseteq progressFile
  /\ progressFile \subseteq returnedTrue

\* C28: when two batch runs in one output directory have both finished,
\* .progress.json holds every meeting that either of them recorded as completed
C28_NoProgressLost ==
  (\A p \in Procs : pc[p] = "done") =>
    \A p \in Procs : completed[p] \subseteq progressFile

\* C29: when a loop has taken strategy k as the success, the file at k's
\* output path was written by k's invocation in this run
C29_AcceptedFileIsFresh ==
  \A p \in Procs :
    (pc[p] \in {"extract", "returned"} /\ extractionSuccess[p]) =>
      LET k == Len(log[p])
          name == OutName(script[p], k)
      IN  /\ Exists(OutDir(p), name)
          /\ OutDir(p)[name].by = RunTag(p)
          /\ OutDir(p)[name].strat = k

\* the .vtt files of ./subs
VttFiles == {n \in DOMAIN subsMisc : \E t \in Tracks : n = Dest(t)}

\* C30: fetchSubs requests video segments only when no subtitle file was
\* written; and when it has exited after concatWebVtt returned true, each
\* declared track has its own .vtt file in ./subs, written for that track
C30_TracksOrSegments ==
  \A p \in Procs :
    /\ netReq[p] # {} => VttFiles = {}
    /\ (pc[p] \in {"select", "move"} /\ Len(tracks) > 0) =>
         /\ netReq[p] = {}
         /\ Cardinality(VttFiles) = Len(tracks)
         /\ \A k \in 1..Len(tracks) :
              /\ Exists(subsMisc, Dest(tracks[k]))
              /\ subsMisc[Dest(tracks[k])].strat = k

====
